---- MODULE Spec2Model ----
(***************************************************************************)
(* A model of the conversion pipeline (src/src/convert/mod.rs) and of the  *)
(* documentation store (src/src/store.rs).                                 *)
(*                                                                         *)
(* Conversions are pure functions of a source node and a Context; they are *)
(* operators here, applied by one action each to inputs drawn in Init.     *)
(* The store is a state machine over its fields, the cache file of its     *)
(* root directory and the outcome of the last call made on it.             *)
(*                                                                         *)
(* Left out of the records: attrs (Attributes::from_ast is not part of     *)
(* convert/mod.rs) and the pretty-printed payload texts (pprust).          *)
(***************************************************************************)
EXTENDS Integers, Sequences, FiniteSets, TLC

VARIABLES
    context,        \* the Context handed to every conversion
    mod_in,         \* a document::Module tree (the crate module)
    mod_out,        \* Option<Vec<NewDocTemp_>>: result of converting mod_in
    trait_in,       \* a document::Trait
    trait_out,      \* Option<NewDocTemp_>: result of converting trait_in
    fn_in,          \* a document::Function
    fn_out,         \* Option<NewDocTemp_>: result of converting fn_in
    documents,      \* Store.documents
    modpaths,       \* Store.modpaths
    functions,      \* Store.functions
    structs,        \* Store.structs
    dir_exists,     \* whether the store's root directory exists on disk
    cache_file,     \* the file <root>/cache.odoc
    panicked,       \* TRUE once the process has aborted (a failed unwrap)
    call,           \* the last operation called on the store, with its argument
    ret,            \* what that operation returned
    before,         \* history: Store.modpaths as it was when that call was made
    saved           \* history: save_cache succeeded and neither the store nor
                    \* the cache file has changed since

convVars == <<context, mod_in, mod_out, trait_in, trait_out, fn_in, fn_out>>
storeVars == <<documents, modpaths, functions, structs, dir_exists, cache_file,
               panicked, call, ret, before, saved>>
vars == <<context, mod_in, mod_out, trait_in, trait_out, fn_in, fn_out,
          documents, modpaths, functions, structs, dir_exists, cache_file,
          panicked, call, ret, before, saved>>

----------------------------------------------------------------------------
(* Bounds of the inputs *)

MaxModules == 3       \* modules in a module tree
MaxItems == 3         \* constants, traits and functions in a module tree
MaxTraitItems == 3    \* items of a trait
MaxPathLen == 3       \* segments of a ModPath handed to the store
MaxModPaths == 2      \* module paths the store holds at a time

----------------------------------------------------------------------------
(* Option, HashMap *)

None == [tag |-> "None"]
Some(v) == [tag |-> "Some", val |-> v]

HashMap_new == [k \in {} |-> <<>>]
HashMap_insert(m, k, v) ==
    [x \in (DOMAIN m) \cup {k} |-> IF x = k THEN v ELSE m[x]]
HashMap_get(m, k) == IF k \in DOMAIN m THEN Some(m[k]) ELSE None

----------------------------------------------------------------------------
(* Source-level (ast::, abi::) and normalized enumerations *)

AbiVariants ==
    <<"Cdecl", "Stdcall", "Fastcall", "Vectorcall", "Aapcs", "Win64", "SysV64",
      "PtxKernel", "Msp430Interrupt", "Rust", "C", "System", "RustIntrinsic",
      "RustCall", "PlatformIntrinsic", "Unadjusted">>
UnsafetyVariants == <<"Normal", "Unsafe">>
ConstnessVariants == <<"Const", "NotConst">>
AstVisibilityVariants == <<"Public", "Inherited", "Crate", "Restricted">>
TraitItemKinds == <<"Method", "Const", "Type", "Macro">>

Range(s) == {s[i] : i \in DOMAIN s}

src_Abi(v) == [enum |-> "abi::Abi", variant |-> v]
src_Unsafety(v) == [enum |-> "ast::Unsafety", variant |-> v]
src_Constness(v) == [enum |-> "ast::Constness", variant |-> v]
src_Visibility(v) == [enum |-> "ast::Visibility", variant |-> v]

Abi(v) == [enum |-> "Abi", variant |-> v]
Unsafety(v) == [enum |-> "Unsafety", variant |-> v]
Constness(v) == [enum |-> "Constness", variant |-> v]
Visibility(v) == [enum |-> "Visibility", variant |-> v]

Contexts ==
    { [store_path |-> "/doc/one", crate_info |-> [package |-> [name |-> "mycrate"]]],
      [store_path |-> "/doc/two", crate_info |-> [package |-> [name |-> "other"]]] }

----------------------------------------------------------------------------
(* Enumerated-modifier mappings *)

convert_Unsafety(u, cx) ==
    CASE u = src_Unsafety("Normal") -> Unsafety("Normal")
      [] u = src_Unsafety("Unsafe") -> Unsafety("Unsafe")

convert_Constness(c, cx) ==
    CASE c = src_Constness("Const")    -> Constness("Const")
      [] c = src_Constness("NotConst") -> Constness("NotConst")

convert_Visibility_allprivate(v, cx) ==
    CASE v = src_Visibility("Public") -> Visibility("Public")
      [] OTHER                        -> Visibility("Private")

convert_Visibility(v, cx) ==
    CASE v = src_Visibility("Public")    -> Visibility("Public")
      [] v = src_Visibility("Inherited") -> Visibility("Inherited")
      [] OTHER                           -> Visibility("Private")

convert_Abi_swapped(a, cx) ==
    CASE a = src_Abi("Cdecl")             -> Abi("Cdecl")
      [] a = src_Abi("Stdcall")           -> Abi("Stdcall")
      [] a = src_Abi("Fastcall")          -> Abi("Fastcall")
      [] a = src_Abi("Vectorcall")        -> Abi("Vectorcall")
      [] a = src_Abi("Aapcs")             -> Abi("Aapcs")
      [] a = src_Abi("Win64")             -> Abi("Win64")
      [] a = src_Abi("SysV64")            -> Abi("SysV64")
      [] a = src_Abi("PtxKernel")         -> Abi("PtxKernel")
      [] a = src_Abi("Msp430Interrupt")   -> Abi("Msp430Interrupt")
      [] a = src_Abi("Rust")              -> Abi("Rust")
      [] a = src_Abi("C")                 -> Abi("C")
      [] a = src_Abi("System")            -> Abi("System")
      [] a = src_Abi("RustIntrinsic")     -> Abi("RustCall")
      [] a = src_Abi("RustCall")          -> Abi("RustCall")
      [] a = src_Abi("PlatformIntrinsic") -> Abi("PlatformIntrinsic")
      [] a = src_Abi("Unadjusted")        -> Abi("Unadjusted")

convert_Abi(a, cx) ==
    CASE a = src_Abi("Cdecl")             -> Abi("Cdecl")
      [] a = src_Abi("Stdcall")           -> Abi("Stdcall")
      [] a = src_Abi("Fastcall")          -> Abi("Fastcall")
      [] a = src_Abi("Vectorcall")        -> Abi("Vectorcall")
      [] a = src_Abi("Aapcs")             -> Abi("Aapcs")
      [] a = src_Abi("Win64")             -> Abi("Win64")
      [] a = src_Abi("SysV64")            -> Abi("SysV64")
      [] a = src_Abi("PtxKernel")         -> Abi("PtxKernel")
      [] a = src_Abi("Msp430Interrupt")   -> Abi("Msp430Interrupt")
      [] a = src_Abi("Rust")              -> Abi("Rust")
      [] a = src_Abi("C")                 -> Abi("C")
      [] a = src_Abi("System")            -> Abi("System")
      [] a = src_Abi("RustIntrinsic")     -> Abi("RustIntrinsic")
      [] a = src_Abi("RustCall")          -> Abi("RustCall")
      [] a = src_Abi("PlatformIntrinsic") -> Abi("PlatformIntrinsic")
      [] a = src_Abi("Unadjusted")        -> Abi("Unadjusted")

----------------------------------------------------------------------------
(* Identifiers: an ast::Ident is an interned name with a syntax context;   *)
(* printing it gives the name.                                             *)

Ident(s) == [name |-> s, ctxt |-> 0]

convert_Ident(id, cx) == id.name

----------------------------------------------------------------------------
(* Documentation records *)

NewDocTemp_(name, mod_path, visibility, inner_data, links) ==
    [name |-> name, mod_path |-> mod_path, visibility |-> visibility,
     inner_data |-> inner_data, links |-> links]

DocLink(name, path) == [name |-> name, path |-> path]

convert_Constant(c, cx) ==
    NewDocTemp_(convert_Ident(c.ident, cx), c.path,
                Some(convert_Visibility(c.vis, cx)),
                [tag |-> "ConstDoc"],
                HashMap_new)

convert_Function(f, cx) ==
    NewDocTemp_(convert_Ident(f.ident, cx), f.path,
                Some(convert_Visibility(f.vis, cx)),
                [tag |-> "FnDoc",
                 unsafety |-> convert_Unsafety(f.unsafety, cx),
                 constness |-> convert_Constness(f.constness, cx),
                 abi |-> convert_Abi(f.abi, cx)],
                HashMap_new)

OfKind(items, kind) == SelectSeq(items, LAMBDA item : item.node.kind = kind)

conv_links(items, cx) ==
    [i \in 1..Len(items) |-> DocLink(convert_Ident(items[i].ident, cx), items[i].path)]

convert_TraitItems_macro_as_type(items, cx) ==
    LET consts  == OfKind(items, "Const")
        methods == OfKind(items, "Method")
        types   == SelectSeq(items, LAMBDA item : item.node.kind \in {"Type", "Macro"})
        macros  == <<>>
        l1 == HashMap_insert(HashMap_new, "TraitItemConst", conv_links(consts, cx))
        l2 == HashMap_insert(l1, "TraitItemMethod", conv_links(methods, cx))
        l3 == HashMap_insert(l2, "TraitItemType", conv_links(types, cx))
        l4 == HashMap_insert(l3, "TraitItemMacro", conv_links(macros, cx))
    IN  l4

convert_TraitItems(items, cx) ==
    LET consts  == OfKind(items, "Const")
        methods == OfKind(items, "Method")
        types   == OfKind(items, "Type")
        macros  == OfKind(items, "Macro")
        l1 == HashMap_insert(HashMap_new, "TraitItemConst", conv_links(consts, cx))
        l2 == HashMap_insert(l1, "TraitItemMethod", conv_links(methods, cx))
        l3 == HashMap_insert(l2, "TraitItemType", conv_links(types, cx))
        l4 == HashMap_insert(l3, "TraitItemMacro", conv_links(macros, cx))
    IN  l4

convert_Trait_nolinks(t, cx) ==
    NewDocTemp_(convert_Ident(t.ident, cx), t.path,
                Some(convert_Visibility(t.vis, cx)),
                [tag |-> "TraitDoc", unsafety |-> convert_Unsafety(t.unsafety, cx)],
                HashMap_new)

convert_Trait(t, cx) ==
    NewDocTemp_(convert_Ident(t.ident, cx), t.path,
                Some(convert_Visibility(t.vis, cx)),
                [tag |-> "TraitDoc", unsafety |-> convert_Unsafety(t.unsafety, cx)],
                convert_TraitItems(t.items, cx))

RECURSIVE convert_Module(_, _)
RECURSIVE flat_map_mods(_, _)

(* self.mods.iter().flat_map(|x| x.convert(context)) *)
flat_map_mods(ms, cx) ==
    IF ms = <<>> THEN <<>>
    ELSE convert_Module(Head(ms), cx) \o flat_map_mods(Tail(ms), cx)

module_record(m, cx) ==
    LET name == IF m.ident.tag = "Some"
                THEN convert_Ident(m.ident.val, cx)
                ELSE cx.crate_info.package.name
    IN  NewDocTemp_(name, m.path,
                    Some(convert_Visibility(m.vis, cx)),
                    [tag |-> "ModuleDoc", is_crate |-> m.is_crate],
                    HashMap_new)

convert_Module_own_first(m, cx) ==
    <<module_record(m, cx)>>
        \o [i \in 1..Len(m.consts) |-> convert_Constant(m.consts[i], cx)]
        \o [i \in 1..Len(m.traits) |-> convert_Trait(m.traits[i], cx)]
        \o [i \in 1..Len(m.fns) |-> convert_Function(m.fns[i], cx)]
        \o flat_map_mods(m.mods, cx)

convert_Module(m, cx) ==
    LET d1 == [i \in 1..Len(m.consts) |-> convert_Constant(m.consts[i], cx)]
        d2 == d1 \o [i \in 1..Len(m.traits) |-> convert_Trait(m.traits[i], cx)]
        d3 == d2 \o [i \in 1..Len(m.fns) |-> convert_Function(m.fns[i], cx)]
        d4 == d3 \o flat_map_mods(m.mods, cx)
    IN  Append(d4, module_record(m, cx))

----------------------------------------------------------------------------
(* The inputs of the conversions: module trees, traits, functions *)

Pick(seq, i) == seq[((i - 1) % Len(seq)) + 1]

TraitItemNode(p, i, kind) ==
    [ident |-> Ident("i" \o ToString(i)),
     path  |-> Append(p, "i" \o ToString(i)),
     node  |-> [kind |-> kind]]

TraitNode(p, name, vis, unsafety, kinds) ==
    [ident |-> Ident(name),
     path  |-> Append(p, name),
     vis   |-> src_Visibility(vis),
     unsafety |-> src_Unsafety(unsafety),
     items |-> [i \in 1..Len(kinds) |-> TraitItemNode(Append(p, name), i, kinds[i])]]

ConstNode(p, i) ==
    [ident |-> Ident("K" \o ToString(i)),
     path  |-> Append(p, "K" \o ToString(i)),
     vis   |-> src_Visibility(Pick(AstVisibilityVariants, i))]

FnNode(p, name, vis, unsafety, constness, abi) ==
    [ident |-> Ident(name),
     path  |-> Append(p, name),
     vis   |-> src_Visibility(vis),
     unsafety  |-> src_Unsafety(unsafety),
     constness |-> src_Constness(constness),
     abi   |-> src_Abi(abi)]

ModuleNode(p, ident, vis, is_crate, cfg, mods) ==
    [ident |-> ident,
     path  |-> p,
     vis   |-> src_Visibility(vis),
     is_crate |-> is_crate,
     consts |-> [i \in 1..cfg.nc |-> ConstNode(p, i)],
     traits |-> [i \in 1..cfg.nt |->
                    TraitNode(p, "T" \o ToString(i), Pick(AstVisibilityVariants, i + 1),
                              Pick(UnsafetyVariants, i),
                              [k \in 1..i |-> Pick(TraitItemKinds, k)])],
     fns    |-> [i \in 1..cfg.nf |->
                    FnNode(p, "f" \o ToString(i), Pick(AstVisibilityVariants, i + 2),
                           Pick(UnsafetyVariants, i + 1), Pick(ConstnessVariants, i),
                           Pick(AbiVariants, i))],
     mods   |-> mods]

(* A module tree is drawn as a code <<d, c>>: d[i] is the depth of the i-th *)
(* module in depth-first order (the crate module first, at depth 0), and   *)
(* c[3i-2], c[3i-1], c[3i] are its numbers of constants, traits, functions *)
Shapes(n) ==
    { d \in [1..n -> 0..(n - 1)] :
        /\ d[1] = 0
        /\ \A i \in 2..n : d[i] >= 1 /\ d[i] <= d[i - 1] + 1 }

RECURSIVE Counts(_, _)
(* the sequences of len numbers that sum to total *)
Counts(len, total) ==
    IF len = 0 THEN (IF total = 0 THEN {<<>>} ELSE {})
    ELSE UNION { { <<x>> \o r : r \in Counts(len - 1, total - x) } : x \in 0..total }

TreeCodes ==
    UNION { Shapes(n) \X Counts(3 * n, k) : n \in 1..MaxModules, k \in 0..MaxItems }

(* the last module of the subtree of module i *)
SubtreeEnd(d, i) ==
    CHOOSE j \in i..Len(d) :
        /\ \A k \in (i + 1)..j : d[k] > d[i]
        /\ (j = Len(d) \/ d[j + 1] <= d[i])

(* the submodules of module i, in order *)
Children(d, i) ==
    SelectSeq([k \in 1..(SubtreeEnd(d, i) - i) |-> i + k], LAMBDA j : d[j] = d[i] + 1)

RECURSIVE BuildModule(_, _, _, _, _, _)
BuildModule(d, c, i, p, ident, vis) ==
    LET kids == Children(d, i)
    IN  ModuleNode(p, ident, vis, ident.tag = "None",
                   [nc |-> c[3 * i - 2], nt |-> c[3 * i - 1], nf |-> c[3 * i]],
                   [q \in 1..Len(kids) |->
                       BuildModule(d, c, kids[q], Append(p, "m" \o ToString(q)),
                                   Some(Ident("m" \o ToString(q))),
                                   Pick(AstVisibilityVariants, q + 1))])

CrateName == "mycrate"

CrateModule(code) ==
    BuildModule(code[1], code[2], 1, <<CrateName>>, None, "Public")

TraitKindSeqs ==
    UNION { [1..n -> Range(TraitItemKinds)] : n \in 0..MaxTraitItems }

Traits ==
    { TraitNode(<<CrateName>>, "T", v, u, kinds) :
        v \in Range(AstVisibilityVariants), u \in Range(UnsafetyVariants),
        kinds \in TraitKindSeqs }

Functions ==
    { FnNode(<<CrateName>>, "f", v, u, c, a) :
        v \in Range(AstVisibilityVariants), u \in Range(UnsafetyVariants),
        c \in Range(ConstnessVariants), a \in Range(AbiVariants) }

----------------------------------------------------------------------------
(* The store: module paths, the cache file, results *)

(* the paths handed to the store: the crate, its module m1, the module m1 *)
(* of that, and so on                                                     *)
ModPaths ==
    { [i \in 1..n |-> IF i = 1 THEN CrateName ELSE "m1"] : n \in 1..MaxPathLen }

(* ModPath::parent: absent for a root path *)
parent(p) ==
    IF Len(p) <= 1 THEN None ELSE Some(SubSeq(p, 1, Len(p) - 1))

Ok(v) == [tag |-> "Ok", val |-> v]
Err(msg) == [tag |-> "Err", msg |-> msg]
Unit == <<>>
Panic == [tag |-> "panic"]

Call(op, arg) == [op |-> op, arg |-> arg]

(* the file <root>/cache.odoc: absent, not readable as text, text that is  *)
(* not the JSON of a set of module paths, or a JSON array of module paths  *)
NoFile == [state |-> "absent", elems |-> <<>>]
Unreadable == [state |-> "unreadable", elems |-> <<>>]
Corrupt == [state |-> "corrupt", elems |-> <<>>]
JsonArray(elems) == [state |-> "array", elems |-> elems]

(* serde_json::to_string of a HashSet: a JSON array of the elements, each  *)
(* once, in the iteration order of the set, which is any order.  An        *)
(* element is written by ModPath's own Serialize (document.rs), which is   *)
(* taken to write the segments as they are.                                *)
to_string(set) ==
    { s \in [1..Cardinality(set) -> set] : Range(s) = set }

(* serde_json::from_str into a HashSet<ModPath> *)
from_str(file) ==
    IF file.state = "array" THEN Ok(Range(file.elems)) ELSE Err("not a set of module paths")

(* the crates a store is converted from: an empty crate, a crate of one   *)
(* empty module m1, and a crate of a constant, a function and a module m1 *)
(* that has a trait                                                       *)
StoreCrates ==
    { CrateModule(<<<<0>>, <<0, 0, 0>>>>),
      CrateModule(<<<<0, 1>>, <<0, 0, 0, 0, 0, 0>>>>),
      CrateModule(<<<<0, 1>>, <<1, 0, 1, 0, 1, 0>>>>) }

(* Store::new *)
Store_new(path) ==
    [name |-> "", path |-> path, documents |-> <<>>, modpaths |-> {},
     functions |-> HashMap_new, structs |-> HashMap_new]

----------------------------------------------------------------------------
(* Store operations.  Every operation needs a live process. *)

convert_Store_registering(crate_module) ==
    /\ ~panicked
    /\ call.op = "new"
    /\ LET store == Store_new(context.store_path)
           docs == convert_Module(crate_module, context)
       IN  /\ documents' = docs
           /\ modpaths' = { docs[i].mod_path :
                              i \in { j \in 1..Len(docs) :
                                        docs[j].inner_data.tag = "ModuleDoc" } }
           /\ functions' = store.functions
           /\ structs' = store.structs
    /\ mod_in' = crate_module
    /\ call' = Call("convert", <<>>)
    /\ ret' = Ok(Unit)
    /\ before' = modpaths
    /\ saved' = FALSE
    /\ UNCHANGED <<context, mod_out, trait_in, trait_out, fn_in, fn_out,
                   dir_exists, cache_file, panicked>>

(* Convert<Store> for OxidocVisitor: a new store holding the records of    *)
(* the visitor's crate module                                              *)
convert_Store(crate_module) ==
    /\ ~panicked
    /\ call.op = "new"
    /\ LET store == Store_new(context.store_path)
           docs == convert_Module(crate_module, context)
       IN  /\ documents' = docs
           /\ modpaths' = store.modpaths
           /\ functions' = store.functions
           /\ structs' = store.structs
    /\ mod_in' = crate_module
    /\ call' = Call("convert", <<>>)
    /\ ret' = Ok(Unit)
    /\ before' = modpaths
    /\ saved' = FALSE
    /\ UNCHANGED <<context, mod_out, trait_in, trait_out, fn_in, fn_out,
                   dir_exists, cache_file, panicked>>

get_functions(scope) ==
    /\ ~panicked
    /\ call' = Call("get_functions", scope)
    /\ ret' = HashMap_get(functions, scope)
    /\ before' = modpaths
    /\ UNCHANGED <<convVars, documents, modpaths, functions, structs, dir_exists,
                   cache_file, panicked, saved>>

get_structs(scope) ==
    /\ ~panicked
    /\ call' = Call("get_structs", scope)
    /\ ret' = HashMap_get(structs, scope)
    /\ before' = modpaths
    /\ UNCHANGED <<convVars, documents, modpaths, functions, structs, dir_exists,
                   cache_file, panicked, saved>>

get_modpaths ==
    /\ ~panicked
    /\ call' = Call("get_modpaths", <<>>)
    /\ ret' = Ok(modpaths)
    /\ before' = modpaths
    /\ UNCHANGED <<convVars, documents, modpaths, functions, structs, dir_exists,
                   cache_file, panicked, saved>>

load_cache_merging ==
    /\ ~panicked
    /\ call' = Call("load_cache", <<>>)
    /\ before' = modpaths
    /\ IF ~dir_exists \/ cache_file.state = "absent"
       THEN /\ ret' = Err("Couldn't find oxidoc cache")
            /\ UNCHANGED <<modpaths, panicked, saved>>
       ELSE IF cache_file.state = "unreadable"
       THEN /\ ret' = Err("Couldn't read oxidoc cache")
            /\ UNCHANGED <<modpaths, panicked, saved>>
       ELSE LET module_names == from_str(cache_file)
            IN  IF module_names.tag = "Err"
                THEN /\ panicked' = TRUE
                     /\ ret' = Panic
                     /\ saved' = FALSE
                     /\ UNCHANGED modpaths
                ELSE /\ modpaths' = modpaths \cup module_names.val
                     /\ ret' = Ok(Unit)
                     /\ saved' = (saved /\ modpaths' = modpaths)
                     /\ UNCHANGED panicked
    /\ UNCHANGED <<convVars, documents, functions, structs, dir_exists, cache_file>>

load_cache ==
    /\ ~panicked
    /\ call' = Call("load_cache", <<>>)
    /\ before' = modpaths
    /\ IF ~dir_exists \/ cache_file.state = "absent"
       THEN \* File::open fails
            /\ ret' = Err("Couldn't find oxidoc cache")
            /\ UNCHANGED <<modpaths, panicked, saved>>
       ELSE IF cache_file.state = "unreadable"
       THEN \* read_to_string fails
            /\ ret' = Err("Couldn't read oxidoc cache")
            /\ UNCHANGED <<modpaths, panicked, saved>>
       ELSE LET module_names == from_str(cache_file)
            IN  IF module_names.tag = "Err"
                THEN \* unwrap() of an Err aborts
                     /\ panicked' = TRUE
                     /\ ret' = Panic
                     /\ saved' = FALSE
                     /\ UNCHANGED modpaths
                ELSE /\ modpaths' = module_names.val
                     /\ ret' = Ok(Unit)
                     /\ saved' = (saved /\ modpaths' = modpaths)
                     /\ UNCHANGED panicked
    /\ UNCHANGED <<convVars, documents, functions, structs, dir_exists, cache_file>>

(* add_all_modpaths: every proper ancestor of scope joins the set *)
RECURSIVE add_all_modpaths(_, _)
add_all_modpaths(set, scope) ==
    LET par == parent(scope)
    IN  IF par.tag = "Some"
        THEN add_all_modpaths(set \cup {par.val}, par.val)
        ELSE set

add_modpath_with_ancestors(scope) ==
    /\ ~panicked
    /\ Cardinality(modpaths \cup {scope}) <= MaxModPaths
    /\ modpaths' = add_all_modpaths(modpaths \cup {scope}, scope)
    /\ call' = Call("add_modpath", scope)
    /\ ret' = Ok(Unit)
    /\ before' = modpaths
    /\ saved' = (saved /\ modpaths' = modpaths)
    /\ UNCHANGED <<convVars, documents, functions, structs, dir_exists, cache_file,
                   panicked>>

add_modpath_indexing(scope) ==
    /\ ~panicked
    /\ Cardinality(modpaths \cup {scope}) <= MaxModPaths
    /\ modpaths' = modpaths \cup {scope}
    /\ functions' = HashMap_insert(functions, scope, {})
    /\ structs' = HashMap_insert(structs, scope, {})
    /\ call' = Call("add_modpath", scope)
    /\ ret' = Ok(Unit)
    /\ before' = modpaths
    /\ saved' = (saved /\ modpaths' = modpaths)
    /\ UNCHANGED <<convVars, documents, dir_exists, cache_file, panicked>>

add_modpath(scope) ==
    /\ ~panicked
    /\ Cardinality(modpaths \cup {scope}) <= MaxModPaths
    /\ modpaths' = modpaths \cup {scope}
    /\ call' = Call("add_modpath", scope)
    /\ ret' = Ok(Unit)
    /\ before' = modpaths
    /\ saved' = (saved /\ modpaths' = modpaths)
    /\ UNCHANGED <<convVars, documents, functions, structs, dir_exists, cache_file,
                   panicked>>

load_doc(doc_path) ==
    /\ ~panicked
    /\ call' = Call("load_doc", doc_path)
    /\ ret' = Err("asd")
    /\ before' = modpaths
    /\ UNCHANGED <<convVars, documents, modpaths, functions, structs, dir_exists,
                   cache_file, panicked, saved>>

(* the body of save_cache, given whether the root directory exists:       *)
(* File::create fails without the directory, and else truncates the file;  *)
(* write_all then fills it or fails part-way, leaving text that is no JSON.*)
(* wrap: the caller is save(), which chains its own message on an error.   *)
save_cache_dropping(dir, wrap) ==
    \E json \in to_string(modpaths) :
       IF ~dir
       THEN /\ ret' = Err(IF wrap THEN "Unable to save cache for directory"
                      ELSE "Could not write cache file")
            /\ UNCHANGED <<cache_file, saved>>
       ELSE \E written \in BOOLEAN :
               IF written
               THEN /\ cache_file' = JsonArray(IF json = <<>> THEN json ELSE Tail(json))
                    /\ ret' = Ok(Unit)
                    /\ saved' = TRUE
               ELSE /\ cache_file' = Corrupt
                    /\ ret' = Err(IF wrap THEN "Unable to save cache for directory"
                              ELSE "Failed to write to function odoc file")
                    /\ saved' = FALSE

save_cache_body(dir, wrap) ==
    \E json \in to_string(modpaths) :
       IF ~dir
       THEN /\ ret' = Err(IF wrap THEN "Unable to save cache for directory"
                      ELSE "Could not write cache file")
            /\ UNCHANGED <<cache_file, saved>>
       ELSE \E written \in BOOLEAN :
               IF written
               THEN /\ cache_file' = JsonArray(json)
                    /\ ret' = Ok(Unit)
                    /\ saved' = TRUE
               ELSE /\ cache_file' = Corrupt
                    /\ ret' = Err(IF wrap THEN "Unable to save cache for directory"
                              ELSE "Failed to write to function odoc file")
                    /\ saved' = FALSE

save_cache ==
    /\ ~panicked
    /\ call' = Call("save_cache", <<>>)
    /\ before' = modpaths
    /\ save_cache_body(dir_exists, FALSE)
    /\ UNCHANGED <<convVars, documents, modpaths, functions, structs, dir_exists,
                   panicked>>

save ==
    /\ ~panicked
    /\ call' = Call("save", <<>>)
    /\ before' = modpaths
    /\ \E created \in BOOLEAN :
          IF ~created /\ ~dir_exists
          THEN \* fs::create_dir_all fails
               /\ ret' = Err("Unable to create directory")
               /\ UNCHANGED <<dir_exists, cache_file, saved>>
          ELSE /\ dir_exists' = TRUE
               /\ save_cache_body(TRUE, TRUE)
    /\ UNCHANGED <<convVars, documents, modpaths, functions, structs, panicked>>

(* The file system under the store's root: other programs (and earlier     *)
(* runs) remove, damage or write the cache file.                           *)
env_remove_cache ==
    /\ ~panicked
    /\ cache_file.state # "absent"
    /\ cache_file' = NoFile
    /\ call' = Call("env_remove_cache", <<>>)
    /\ ret' = Ok(Unit)
    /\ before' = modpaths
    /\ saved' = FALSE
    /\ UNCHANGED <<convVars, documents, modpaths, functions, structs, dir_exists,
                   panicked>>

env_damage_cache(content) ==
    /\ ~panicked
    /\ content \in {Unreadable, Corrupt}
    /\ dir_exists' = TRUE
    /\ cache_file' = content
    /\ call' = Call("env_damage_cache", <<>>)
    /\ ret' = Ok(Unit)
    /\ before' = modpaths
    /\ saved' = FALSE
    /\ UNCHANGED <<convVars, documents, modpaths, functions, structs, panicked>>

env_write_cache(set) ==
    /\ ~panicked
    /\ \E json \in to_string(set) :
          /\ cache_file # JsonArray(json)
          /\ cache_file' = JsonArray(json)
    /\ dir_exists' = TRUE
    /\ call' = Call("env_write_cache", <<>>)
    /\ ret' = Ok(Unit)
    /\ before' = modpaths
    /\ saved' = FALSE
    /\ UNCHANGED <<convVars, documents, modpaths, functions, structs, panicked>>

----------------------------------------------------------------------------
(* Conversion steps *)

ConvertModule ==
    /\ mod_out.tag = "None"
    /\ mod_out' = Some(convert_Module(mod_in, context))
    /\ UNCHANGED <<context, mod_in, trait_in, trait_out, fn_in, fn_out, storeVars>>

ConvertTrait ==
    /\ trait_out.tag = "None"
    /\ trait_out' = Some(convert_Trait(trait_in, context))
    /\ UNCHANGED <<context, mod_in, mod_out, trait_in, fn_in, fn_out, storeVars>>

ConvertFunction ==
    /\ fn_out.tag = "None"
    /\ fn_out' = Some(convert_Function(fn_in, context))
    /\ UNCHANGED <<context, mod_in, mod_out, trait_in, trait_out, fn_in, storeVars>>

----------------------------------------------------------------------------
(* Specifications *)

EmptyCrate ==
    CrateModule(<<<<0>>, <<0, 0, 0>>>>)
EmptyTrait == TraitNode(<<CrateName>>, "T", "Public", "Normal", <<>>)
PlainFn == FnNode(<<CrateName>>, "f", "Public", "Normal", "NotConst", "Rust")
DocOne == CHOOSE cx \in Contexts : cx.store_path = "/doc/one"

InitStore ==
    LET store == Store_new(context.store_path)
    IN  /\ documents = store.documents
        /\ modpaths = store.modpaths
        /\ functions = store.functions
        /\ structs = store.structs
        /\ cache_file = NoFile
        /\ panicked = FALSE
        /\ call = Call("new", <<>>)
        /\ ret = Ok(Unit)
        /\ before = {}
        /\ saved = FALSE

Init ==
    /\ context = DocOne
    /\ mod_in = EmptyCrate /\ mod_out = None
    /\ trait_in = EmptyTrait /\ trait_out = None
    /\ fn_in = PlainFn /\ fn_out = None
    /\ dir_exists \in BOOLEAN    \* the root directory may be left from an earlier run
    /\ InitStore

Next ==
    \/ \E m \in StoreCrates : convert_Store(m)
    \/ \E scope \in ModPaths : get_functions(scope)
    \/ \E scope \in ModPaths : get_structs(scope)
    \/ get_modpaths
    \/ load_cache
    \/ \E scope \in ModPaths : add_modpath(scope)
    \/ \E doc_path \in ModPaths : load_doc(doc_path)
    \/ save_cache
    \/ save
    \/ env_remove_cache
    \/ \E content \in {Unreadable, Corrupt} : env_damage_cache(content)
    \/ \E set \in {S \in SUBSET ModPaths : Cardinality(S) <= MaxModPaths} :
          env_write_cache(set)

Spec == Init /\ [][Next]_vars

InitModule ==
    /\ context \in Contexts
    /\ \E code \in TreeCodes : mod_in = CrateModule(code)
    /\ mod_out = None
    /\ trait_in = EmptyTrait /\ trait_out = None
    /\ fn_in = PlainFn /\ fn_out = None
    /\ dir_exists = FALSE
    /\ InitStore

SpecModule == InitModule /\ [][ConvertModule]_vars

InitTrait ==
    /\ context \in Contexts
    /\ mod_in = EmptyCrate /\ mod_out = None
    /\ trait_in \in Traits /\ trait_out = None
    /\ fn_in = PlainFn /\ fn_out = None
    /\ dir_exists = FALSE
    /\ InitStore

SpecTrait == InitTrait /\ [][ConvertTrait]_vars

InitFunction ==
    /\ context \in Contexts
    /\ mod_in = EmptyCrate /\ mod_out = None
    /\ trait_in = EmptyTrait /\ trait_out = None
    /\ fn_in \in Functions /\ fn_out = None
    /\ dir_exists = FALSE
    /\ InitStore

SpecFunction == InitFunction /\ [][ConvertFunction]_vars

----------------------------------------------------------------------------
(* Properties *)

RECURSIVE RecordCount(_)
RECURSIVE SumRecordCounts(_)
SumRecordCounts(ms) ==
    IF ms = <<>> THEN 0 ELSE RecordCount(Head(ms)) + SumRecordCounts(Tail(ms))
RecordCount(m) ==
    Len(m.consts) + Len(m.traits) + Len(m.fns) + SumRecordCounts(m.mods) + 1

IsRecordOf(rec, tag, node) ==
    /\ rec.inner_data.tag = tag
    /\ rec.mod_path = node.path

RECURSIVE ModuleOrder(_, _)
ModuleOrder(m, out) ==
    LET C == Len(m.consts)
        T == Len(m.traits)
        F == Len(m.fns)
        off(j) == C + T + F + SumRecordCounts(SubSeq(m.mods, 1, j - 1))
    IN  /\ Len(out) = RecordCount(m)
        /\ \A i \in 1..C : /\ IsRecordOf(out[i], "ConstDoc", m.consts[i])
                           /\ out[i].name = m.consts[i].ident.name
        /\ \A i \in 1..T : /\ IsRecordOf(out[C + i], "TraitDoc", m.traits[i])
                           /\ out[C + i].name = m.traits[i].ident.name
        /\ \A i \in 1..F : /\ IsRecordOf(out[C + T + i], "FnDoc", m.fns[i])
                           /\ out[C + T + i].name = m.fns[i].ident.name
        /\ \A j \in 1..Len(m.mods) :
              ModuleOrder(m.mods[j],
                          SubSeq(out, off(j) + 1, off(j) + RecordCount(m.mods[j])))
        /\ IsRecordOf(out[Len(out)], "ModuleDoc", m)

(* C1: converting a module gives the records of its constants, then of its *)
(* traits, then of its functions, each in source order, then the flattened *)
(* records of each submodule in submodule order, and last the module's own *)
(* record: C + T + F + (records of the submodules) + 1 records in all, one *)
(* record for an empty module.                                             *)
ModuleRecordsInOrder ==
    mod_out.tag = "Some" =>
        /\ ModuleOrder(mod_in, mod_out.val)
        /\ (Len(mod_in.consts) = 0 /\ Len(mod_in.traits) = 0 /\ Len(mod_in.fns) = 0
            /\ Len(mod_in.mods) = 0) => Len(mod_out.val) = 1

NestedModuleConverted ==
    /\ mod_out.tag = "Some"
    /\ Len(mod_in.consts) = 1 /\ Len(mod_in.traits) = 1 /\ Len(mod_in.fns) = 1
    /\ Len(mod_in.mods) = 1
    /\ Len(mod_in.mods[1].mods) = 1
    /\ Len(mod_out.val) = 6

LinkKey(kind) == "TraitItem" \o kind
LinkKeys == {LinkKey(k) : k \in Range(TraitItemKinds)}
LinkOf(item) == DocLink(item.ident.name, item.path)

(* C2: the links of a trait partition its items by kind: every item is a   *)
(* link of exactly one group, the group of its kind; the group sizes sum   *)
(* to the number of items; each group keeps the source order.              *)
TraitItemsPartitioned ==
    trait_out.tag = "Some" =>
        LET items == trait_in.items
            links == trait_out.val.links
            places(i) == { <<key, j>> \in LinkKeys \X (1..Len(items)) :
                              /\ key \in DOMAIN links
                              /\ j <= Len(links[key])
                              /\ links[key][j] = LinkOf(items[i]) }
            pos(link) == CHOOSE i \in 1..Len(items) : LinkOf(items[i]) = link
        IN  /\ LinkKeys \subseteq DOMAIN links
            /\ Len(links["TraitItemConst"]) + Len(links["TraitItemMethod"])
                 + Len(links["TraitItemType"]) + Len(links["TraitItemMacro"])
               = Len(items)
            /\ \A i \in 1..Len(items) :
                  /\ Cardinality(places(i)) = 1
                  /\ \E j \in 1..Len(items) :
                        places(i) = {<<LinkKey(items[i].node.kind), j>>}
            /\ \A key \in LinkKeys :
                  \A j, k \in 1..Len(links[key]) :
                     j < k => pos(links[key][j]) < pos(links[key][k])

MixedTraitConverted ==
    /\ trait_out.tag = "Some"
    /\ Len(trait_in.items) = 3
    /\ trait_in.items[1].node.kind = "Method"
    /\ trait_in.items[2].node.kind = "Const"
    /\ trait_in.items[3].node.kind = "Method"
    /\ Len(trait_out.val.links["TraitItemMethod"]) = 2

(* C3: the links of a trait's record have all four keys, a key of an empty *)
(* group being mapped to the empty sequence; also for a trait of no items. *)
TraitLinksHaveFourKeys ==
    trait_out.tag = "Some" =>
        LET links == trait_out.val.links
        IN  /\ DOMAIN links =
                 {"TraitItemConst", "TraitItemMethod", "TraitItemType", "TraitItemMacro"}
            /\ \A kind \in Range(TraitItemKinds) :
                  (\A i \in 1..Len(trait_in.items) : trait_in.items[i].node.kind # kind)
                     => Len(links[LinkKey(kind)]) = 0

EmptyTraitConverted ==
    /\ trait_out.tag = "Some"
    /\ trait_in.items = <<>>
    /\ Cardinality(DOMAIN trait_out.val.links) = 4

(* C4: when save_cache has succeeded and neither the store nor the cache  *)
(* file has changed since, load_cache succeeds and leaves the module-path  *)
(* set as it was.                                                          *)
SaveLoadRoundTrip ==
    [][(saved /\ call'.op = "load_cache") =>
          (ret'.tag = "Ok" /\ modpaths' = modpaths)]_vars

LoadedAfterSave ==
    /\ call.op = "load_cache"
    /\ ret.tag = "Ok"
    /\ saved
    /\ Cardinality(modpaths) = 2
    /\ cache_file.state = "array"

UnreadableMessages == {"Couldn't find oxidoc cache", "Couldn't read oxidoc cache"}

(* C5: load_cache never aborts the process: it returns a 'cache            *)
(* unreadable' error when the file is missing or unreadable and a distinct *)
(* 'cache corrupt' error when the content is not a module-path set.        *)
LoadCacheReturnsErrors ==
    call.op = "load_cache" =>
        /\ ~panicked
        /\ ret.tag \in {"Ok", "Err"}
        /\ cache_file.state \in {"absent", "unreadable"} =>
              (ret.tag = "Err" /\ ret.msg \in UnreadableMessages)
        /\ cache_file.state = "corrupt" =>
              (ret.tag = "Err" /\ ret.msg \notin UnreadableMessages)

DocsAt(path) ==
    { i \in 1..Len(documents) : documents[i].mod_path = path }

(* C6: load_doc(path) returns the record stored under path when the store  *)
(* holds one, and fails only when it holds none.                           *)
LoadDocResolves ==
    call.op = "load_doc" =>
        IF DocsAt(call.arg) # {}
        THEN ret.tag = "Ok"
        ELSE ret.tag = "Err"

(* C7: get_functions and get_structs return None for every scope: nothing  *)
(* inserts into either index, add_modpath and load_cache included.         *)
LookupsAbsent ==
    /\ \A scope \in ModPaths :
          /\ HashMap_get(functions, scope) = None
          /\ HashMap_get(structs, scope) = None
    /\ call.op \in {"get_functions", "get_structs"} => ret = None

LookupOfKnownModpath ==
    /\ call.op \in {"get_functions", "get_structs"}
    /\ call.arg \in modpaths
    /\ ret = None

NormalVisibility(v) ==
    IF v \in {"Public", "Inherited"} THEN v ELSE "Private"

(* C8: the modifier mappings give the same-named variant for each of the   *)
(* 16 Abi variants and for Unsafety and Constness; Visibility maps Public  *)
(* to Public, Inherited to Inherited and anything else to Private;         *)
(* whatever the Context.                                                   *)
ModifiersMapByName ==
    fn_out.tag = "Some" =>
        LET d == fn_out.val.inner_data
        IN  /\ Len(AbiVariants) = 16
            /\ Cardinality(Range(AbiVariants)) = 16
            /\ d.abi = [enum |-> "Abi", variant |-> fn_in.abi.variant]
            /\ d.unsafety = [enum |-> "Unsafety", variant |-> fn_in.unsafety.variant]
            /\ d.constness = [enum |-> "Constness", variant |-> fn_in.constness.variant]
            /\ fn_out.val.visibility =
                 Some([enum |-> "Visibility",
                       variant |-> NormalVisibility(fn_in.vis.variant)])

RestrictedIntrinsicConverted ==
    /\ fn_out.tag = "Some"
    /\ fn_in.abi.variant = "RustIntrinsic"
    /\ fn_in.vis.variant = "Restricted"
    /\ fn_in.unsafety.variant = "Unsafe"
    /\ context # DocOne
    /\ fn_out.val.visibility.val.variant = "Private"

(* C9: add_modpath(path) makes the module-path set the previous set plus   *)
(* path, and changes neither documents nor functions nor structs.          *)
AddModpathAddsOnlyPath ==
    [][call'.op = "add_modpath" =>
          /\ modpaths' = modpaths \cup {call'.arg}
          /\ UNCHANGED <<documents, functions, structs>>]_vars

NestedModpathAdded ==
    /\ call.op = "add_modpath"
    /\ Len(call.arg) >= 2
    /\ call.arg \notin before
    /\ parent(call.arg).val \notin modpaths
    /\ modpaths = before \cup {call.arg}
    /\ documents # <<>>

(* C10: a successful load_cache sets the module-path set to the set in the *)
(* cache file, dropping every path that is not in the file; a second       *)
(* load_cache right after it leaves the set as the first one did.          *)
LoadCacheReplaces ==
    [][(call'.op = "load_cache" /\ ret'.tag = "Ok") =>
          /\ modpaths' = Range(cache_file.elems)
          /\ (call.op = "load_cache" /\ ret.tag = "Ok") => modpaths' = modpaths]_vars

LoadDroppedUnsavedPath ==
    /\ call.op = "load_cache"
    /\ ret.tag = "Ok"
    /\ before \ modpaths # {}
    /\ modpaths # {}

(* C11: the store built by converting a crate holds the flattened records *)
(* of the crate's root module as its documents and has empty modpaths,     *)
(* functions and structs; a save_cache made right after the conversion     *)
(* writes an empty module-path set, whatever documents holds.              *)
ConvertedStoreRegistersNoPath ==
    [][/\ call'.op = "convert" =>
             /\ ModuleOrder(mod_in', documents')
             /\ modpaths' = {}
             /\ DOMAIN functions' = {}
             /\ DOMAIN structs' = {}
       /\ (call.op = "convert" /\ call'.op = "save_cache" /\ ret'.tag = "Ok") =>
             cache_file' = JsonArray(<<>>)]_vars

EmptySetSavedAfterConversion ==
    /\ call.op = "save_cache"
    /\ ret.tag = "Ok"
    /\ cache_file = JsonArray(<<>>)
    /\ modpaths = {}
    /\ before = {}
    /\ Len(documents) = 5
    /\ documents[4].inner_data.tag = "ModuleDoc"
    /\ documents[5].inner_data.tag = "ModuleDoc"

====
